---- MODULE Spec2Model ----
(***************************************************************************)
(* One run of the code interpreter demo (src/app.py): the reply of the     *)
(* model is streamed, the first python block is extracted and written to a *)
(* temporary script, run locally or in a container, and the result is      *)
(* shown as text or as an image.                                           *)
(*                                                                         *)
(* Text is modelled as a sequence of one-character strings, so that the    *)
(* regular expression, str.strip, the substring tests and os.path.dirname  *)
(* are computed on characters as the code computes them.  The backquote    *)
(* character is written "BQ".                                              *)
(***************************************************************************)
EXTENDS Integers, Sequences, FiniteSets, TLC

VARIABLES
    pc,               \* position of the run in the script
    execution_env,    \* st.selectbox value, line 24
    output,           \* text returned by st.write_stream, line 157
    code,             \* result of get_code_group, line 159
    temp_file_path,   \* path of the script written at lines 161-165
    files,            \* the generated-script files that exist on disk
    proc,             \* what the subprocess / the container runtime did
    executed_result,  \* line 168, 171, 174
    raised,           \* the exception that left the run block, or "none"
    shown,            \* what the output classifier rendered, lines 176-182
    calls             \* how often each strategy was entered

vars == <<pc, execution_env, output, code, temp_file_path, files, proc,
          executed_result, raised, shown, calls>>

----------------------------------------------------------------------------
(* Bounds *)

\* a reply is the concatenation of at most MaxChunks chunks
MaxChunks == 5

----------------------------------------------------------------------------
(* Text helpers *)

Min(S) == CHOOSE x \in S : \A y \in S : x <= y

Max(S) == CHOOSE x \in S : \A y \in S : y <= x

\* lit occurs in s at position i (1-based)
StartsAt(s, i, lit) ==
    /\ i >= 1
    /\ i + Len(lit) - 1 <= Len(s)
    /\ SubSeq(s, i, i + Len(lit) - 1) = lit

\* str.find with 1-based positions: the first occurrence at or after from,
\* 0 when there is none
Find(s, lit, from) ==
    LET hits == {i \in from..Len(s) : StartsAt(s, i, lit)}
    IN  IF hits = {} THEN 0 ELSE Min(hits)

\* Python's  sub in s
Contains(s, sub) == \E i \in 1..(Len(s) + 1) : StartsAt(s, i, sub)

Whitespace == {" ", "\n", "\t"}

\* str.strip()
strip(s) ==
    LET keep == {i \in 1..Len(s) : s[i] \notin Whitespace}
    IN  IF keep = {} THEN <<>> ELSE SubSeq(s, Min(keep), Max(keep))

\* os.path.dirname (posixpath)
dirname(p) ==
    LET slashes == {i \in 1..Len(p) : p[i] = "/"}
        i       == IF slashes = {} THEN 0 ELSE Max(slashes)
        head    == SubSeq(p, 1, i)
        nons    == {k \in 1..Len(head) : head[k] # "/"}
    IN  IF nons = {} THEN head ELSE SubSeq(head, 1, Max(nons))

RECURSIVE Concat(_)
Concat(ss) == IF ss = <<>> THEN <<>> ELSE Head(ss) \o Concat(Tail(ss))

----------------------------------------------------------------------------
(* Literals of the program *)

Fence == <<"BQ","BQ","BQ">>

\* the literal prefix of the pattern at line 78
Opener == <<"BQ","BQ","BQ","p","y","t","h","o","n","\n">>

\* line 113
TimeoutMsg == <<">",">",">"," ","E","x","e","c","u","t","i","o","n"," ","t","i","m","e","d"," ","o","u","t",".">>

\* line 148
FailedPrefix == <<"F","a","i","l","e","d"," ","r","u","n","n","i","n","g"," ","t","h","e"," ","c","o","n","t","a","i","n","e","r",":"," ">>

ImageExts == {<<".","p","n","g">>, <<".","j","p","g">>}

\* Python's None / a str value
None == [some |-> FALSE, text |-> <<>>]

Str(t) == [some |-> TRUE, text |-> t]

\* re.search found nothing (get_code_group returns False) / group(1)
NoMatch == [ok |-> FALSE, group |-> <<>>]

Match(g) == [ok |-> TRUE, group |-> g]

\* truth value of  str | bool  and of  str | None
CodeTruthy(c) == c.ok /\ c.group # <<>>

ResultTruthy(r) == r.some /\ r.text # <<>>

----------------------------------------------------------------------------
(* Inputs *)

Hello == <<"h","e","l","l","o","\n">>

ChartPng == <<"c","h","a","r","t",".","p","n","g">>

AbsPng == <<"/","t","m","p","/","x","y","z","/","c","h","a","r","t",".","p","n","g">>

PlotJpg == <<" ","p","l","o","t",".","j","p","g","\n">>

Traceback == <<"N","a","m","e","E","r","r","o","r","\n">>

Chunks == {Opener, Fence, <<"a">>, <<"s","h","\n">>}

Replies == {Concat(cs) : cs \in UNION {[1..n -> Chunks] : n \in 0..MaxChunks}}

Stdouts == {<<>>, Hello, ChartPng \o <<"\n">>, AbsPng \o <<"\n">>, PlotJpg}

Stderrs == {<<>>, Traceback}

\* str(e) of the exceptions of the container runtime
DockerErrors == {<<"n","o"," ","i","m","a","g","e">>, <<"e","x","i","t"," ","1",":"," ">> \o ChartPng}

TempDirs == {<<"/","t","m","p">>, <<"/","t","m","p","/","a","b","c">>}

ScriptName == <<"t","m","p","q",".","p","y">>

\* proc records what the collaborator of the strategy did: the outcome of
\* subprocess.run or of the container runtime, what it captured, and whether
\* the script removed its own file while it ran
NoProc == [strategy |-> "none", outcome |-> "none", returncode |-> 0,
           stdout |-> <<>>, stderr |-> <<>>, message |-> <<>>, removed |-> FALSE]

NoPath == <<>>

----------------------------------------------------------------------------
(* get_code_group, lines 67-84 *)

\* a pattern that also accepts a block the reply never closes
get_code_group_unclosed(llm_response) ==
    LET i == Find(llm_response, Opener, 1)
        j == Find(llm_response, Fence, i + Len(Opener))
    IN  IF i = 0
        THEN NoMatch
        ELSE Match(SubSeq(llm_response, i + Len(Opener),
                          IF j = 0 THEN Len(llm_response) ELSE j - 1))

\* a greedy group: the match runs to the last closing fence
get_code_group_greedy(llm_response) ==
    LET i      == Find(llm_response, Opener, 1)
        closes == {j \in (i + Len(Opener))..Len(llm_response) :
                      StartsAt(llm_response, j, Fence)}
    IN  IF i = 0 \/ closes = {}
        THEN NoMatch
        ELSE Match(SubSeq(llm_response, i + Len(Opener), Max(closes) - 1))

\* re.search of the pattern of line 78 with re.DOTALL: the leftmost
\* opener that is followed by a closing fence, and the nearest such fence
get_code_group(llm_response) ==
    LET starts == {i \in 1..Len(llm_response) :
                      /\ StartsAt(llm_response, i, Opener)
                      /\ Find(llm_response, Fence, i + Len(Opener)) # 0}
    IN  IF starts = {}
        THEN NoMatch
        ELSE LET i == Min(starts)
                 j == Find(llm_response, Fence, i + Len(Opener))
             IN  Match(SubSeq(llm_response, i + Len(Opener), j - 1))

----------------------------------------------------------------------------
(* The run block, lines 153-182 *)

Init ==
    /\ pc = "Idle"
    /\ execution_env \in {"None", "docker", "local"}
    /\ output = <<>>
    /\ code = NoMatch
    /\ temp_file_path = NoPath
    /\ files = {}
    /\ proc = NoProc
    /\ executed_result = None
    /\ raised = "none"
    /\ shown = [kind |-> "none", path |-> <<>>, value |-> None]
    /\ calls = [local |-> 0, docker |-> 0]

\* lines 153-157: the reply is streamed to the page and kept in output
Stream ==
    /\ pc = "Idle"
    /\ \E reply \in Replies : output' = reply
    /\ pc' = "ResponseStreaming"
    /\ UNCHANGED <<execution_env, code, temp_file_path, files, proc,
                   executed_result, raised, shown, calls>>

\* line 159
Extract ==
    /\ pc = "ResponseStreaming"
    /\ code' = get_code_group(output)
    /\ pc' = "CodeExtracted"
    /\ UNCHANGED <<execution_env, output, temp_file_path, files, proc,
                   executed_result, raised, shown, calls>>

\* line 160
HasCode == output # <<>> /\ CodeTruthy(code)

\* lines 160-166: NamedTemporaryFile(delete=False) creates a fresh file
Materialize ==
    /\ pc = "CodeExtracted"
    /\ HasCode
    /\ \E d \in TempDirs :
          /\ temp_file_path' = d \o <<"/">> \o ScriptName
          /\ files' = files \cup {d \o <<"/">> \o ScriptName}
    /\ pc' = "ScriptWritten"
    /\ UNCHANGED <<execution_env, output, code, proc, executed_result,
                   raised, shown, calls>>

\* line 160 false: the block is skipped
SkipExecution ==
    /\ pc = "CodeExtracted"
    /\ ~HasCode
    /\ pc' = "NoCodeFound"
    /\ UNCHANGED <<execution_env, output, code, temp_file_path, files, proc,
                   executed_result, raised, shown, calls>>

----------------------------------------------------------------------------
(* execute_local, lines 87-115 *)

\* os.unlink(path) on the files of disk
unlink(path, disk) ==
    [files |-> disk \ {path},
     error |-> IF path \in disk THEN "none" ELSE "FileNotFoundError"]

\* p is what subprocess.run did: "completed" with a return code and the
\* captured streams, "timeout" (TimeoutExpired), or "launch_error" (the
\* interpreter could not be started, an OSError that no clause catches).
\* The finally clause runs on every path; an exception it raises replaces
\* the pending return value or exception.
execute_local(path, disk, p) ==
    LET atFinally == IF p.removed THEN disk \ {path} ELSE disk
        cleanup   == unlink(path, atFinally)
        body      == CASE p.outcome = "completed" ->
                            [result |-> Str(IF p.returncode = 0 THEN p.stdout
                                                                ELSE p.stderr),
                             error  |-> "none"]
                       [] p.outcome = "timeout" ->
                            [result |-> Str(TimeoutMsg), error |-> "none"]
                       [] OTHER ->
                            [result |-> None, error |-> "OSError"]
    IN  [files  |-> cleanup.files,
         result |-> IF cleanup.error = "none" THEN body.result ELSE None,
         raised |-> IF cleanup.error = "none" THEN body.error
                                              ELSE cleanup.error]

----------------------------------------------------------------------------
(* execute_docker, lines 118-150 *)

\* p is what the container runtime did: "connect_error" (docker.from_env()
\* at line 138 raises, before the try statement is entered), "ok" (the
\* container ran and its output is decoded) or "run_error" (containers.run
\* raises: image missing, mount failure, non-zero exit, connection lost).
execute_docker(path, disk, p) ==
    IF p.outcome = "connect_error"
    THEN [files |-> disk, result |-> None, raised |-> "DockerException"]
    ELSE LET atFinally == IF p.removed THEN disk \ {path} ELSE disk
             cleanup   == unlink(path, atFinally)
             body      == IF p.outcome = "ok"
                          THEN Str(p.stdout)
                          ELSE Str(FailedPrefix \o p.message)
         IN  [files  |-> cleanup.files,
              result |-> IF cleanup.error = "none" THEN body ELSE None,
              raised |-> cleanup.error]

----------------------------------------------------------------------------
(* Dispatch, lines 168-174 *)

\* a dispatch whose second branch is a plain else
Strategy_else(env) ==
    IF env = "local" THEN "local" ELSE "docker"

\* the branch taken by the if / elif at lines 169 and 172
Strategy(env) ==
    IF env = "local" THEN "local"
    ELSE IF env = "docker" THEN "docker"
    ELSE "none"

\* the call of a strategy with collaborator behaviour p and what it leaves
Execute(p, r) ==
    /\ pc = "ScriptWritten"
    /\ Strategy(execution_env) = p.strategy
    /\ proc' = p
    /\ calls' = [calls EXCEPT ![p.strategy] = @ + 1]
    /\ files' = r.files
    /\ raised' = r.raised
    /\ executed_result' = r.result
    /\ pc' = IF r.raised = "none" THEN "Executed" ELSE "Crashed"
    /\ UNCHANGED <<execution_env, output, code, temp_file_path, shown>>

LocalProc(outcome, rc, out, err, removed) ==
    [strategy |-> "local", outcome |-> outcome, returncode |-> rc,
     stdout |-> out, stderr |-> err, message |-> <<>>, removed |-> removed]

DockerProc(outcome, out, msg, removed) ==
    [strategy |-> "docker", outcome |-> outcome, returncode |-> 0,
     stdout |-> out, stderr |-> <<>>, message |-> msg, removed |-> removed]

\* line 171, the child process ran to completion
LocalCompleted ==
    /\ pc = "ScriptWritten"
    /\ \E rc \in {0, 1}, out \in Stdouts, err \in Stderrs, removed \in BOOLEAN :
           LET p == LocalProc("completed", rc, out, err, removed)
           IN  Execute(p, execute_local(temp_file_path, files, p))

\* line 171, the child process was killed after the timeout of line 108
LocalTimedOut ==
    /\ pc = "ScriptWritten"
    /\ \E removed \in BOOLEAN :
           LET p == LocalProc("timeout", 0, <<>>, <<>>, removed)
           IN  Execute(p, execute_local(temp_file_path, files, p))

\* line 171, python3.10 could not be started
LocalLaunchFailed ==
    /\ pc = "ScriptWritten"
    /\ LET p == LocalProc("launch_error", 0, <<>>, <<>>, FALSE)
       IN  Execute(p, execute_local(temp_file_path, files, p))

\* line 174, the container ran
DockerCompleted ==
    /\ pc = "ScriptWritten"
    /\ \E out \in Stdouts, removed \in BOOLEAN :
           LET p == DockerProc("ok", out, <<>>, removed)
           IN  Execute(p, execute_docker(temp_file_path, files, p))

\* line 174, containers.run raised
DockerRunFailed ==
    /\ pc = "ScriptWritten"
    /\ \E msg \in DockerErrors, removed \in BOOLEAN :
           LET p == DockerProc("run_error", <<>>, msg, removed)
           IN  Execute(p, execute_docker(temp_file_path, files, p))

\* line 174, docker.from_env() raised
DockerConnectFailed ==
    /\ pc = "ScriptWritten"
    /\ LET p == DockerProc("connect_error", <<>>, <<>>, FALSE)
       IN  Execute(p, execute_docker(temp_file_path, files, p))

\* lines 168-174 with neither branch taken
NoExecution ==
    /\ pc = "ScriptWritten"
    /\ Strategy(execution_env) = "none"
    /\ executed_result' = None
    /\ pc' = "Executed"
    /\ UNCHANGED <<execution_env, output, code, temp_file_path, files, proc,
                   raised, shown, calls>>

----------------------------------------------------------------------------
(* Output classification, lines 176-182 *)

\* line 176
IsImage(r) == ResultTruthy(r) /\ \E ext \in ImageExts : Contains(r.text, ext)

\* a path that is joined with the temp directory in both modes
image_path_joined(env, path, r) ==
    dirname(path) \o <<"/">> \o strip(r.text)

\* the argument of st.image, lines 177-180
image_path(env, path, r) ==
    IF env = "local"
    THEN strip(r.text)
    ELSE dirname(path) \o <<"/">> \o strip(r.text)

ShowImage ==
    /\ pc = "Executed"
    /\ IsImage(executed_result)
    /\ shown' = [kind |-> "image",
                 path |-> image_path(execution_env, temp_file_path,
                                     executed_result),
                 value |-> None]
    /\ pc' = "Displayed"
    /\ UNCHANGED <<execution_env, output, code, temp_file_path, files, proc,
                   executed_result, raised, calls>>

\* line 182
ShowText ==
    /\ pc = "Executed"
    /\ ~IsImage(executed_result)
    /\ shown' = [kind |-> "text", path |-> <<>>, value |-> executed_result]
    /\ pc' = "Displayed"
    /\ UNCHANGED <<execution_env, output, code, temp_file_path, files, proc,
                   executed_result, raised, calls>>

----------------------------------------------------------------------------

Next ==
    \/ Stream
    \/ Extract
    \/ Materialize
    \/ SkipExecution
    \/ LocalLaunchFailed
    \/ LocalCompleted
    \/ LocalTimedOut
    \/ DockerConnectFailed
    \/ DockerCompleted
    \/ DockerRunFailed
    \/ NoExecution
    \/ ShowImage
    \/ ShowText

Spec == Init /\ [][Next]_vars

----------------------------------------------------------------------------
(* Fenced code blocks of a reply, as a reader of the markdown sees them:   *)
(* the fences are paired in order of appearance, the text of a block up to *)
(* its first newline is its language tag and the rest is its body.         *)

RECURSIVE FencePositions(_, _)
FencePositions(s, from) ==
    LET i == Find(s, Fence, from)
    IN  IF i = 0 THEN <<>> ELSE <<i>> \o FencePositions(s, i + Len(Fence))

Blocks(s) ==
    LET f == FencePositions(s, 1)
    IN  [k \in 1..(Len(f) \div 2) |->
            SubSeq(s, f[2 * k - 1] + Len(Fence), f[2 * k] - 1)]

BlockTag(b) ==
    LET nl == Find(b, <<"\n">>, 1)
    IN  IF nl = 0 THEN <<>> ELSE SubSeq(b, 1, nl - 1)

BlockBody(b) ==
    LET nl == Find(b, <<"\n">>, 1)
    IN  IF nl = 0 THEN b ELSE SubSeq(b, nl + 1, Len(b))

PythonTagged(b) == BlockTag(b) = <<"p","y","t","h","o","n">> /\ Find(b, <<"\n">>, 1) # 0

Extracted == pc \notin {"Idle", "ResponseStreaming"}

Ended == pc \in {"NoCodeFound", "Displayed", "Crashed"}

AfterExecution == pc \in {"Executed", "Displayed", "Crashed"}

----------------------------------------------------------------------------
(* Claims *)

\* C1: in every execution mode and on every exit path at most one generated
\* script exists at any time, and none exists any more when the run has ended.
C1_NoScriptSurvives ==
    /\ Cardinality(files) <= 1
    /\ Ended => files = {}

\* C2: every failure of the containerized strategy (connection failure, missing
\* image, mount failure, non-zero exit) gives a text result that starts with
\* "Failed running the container:" and raises nothing out of the dispatcher.
C2_DockerFailureIsText ==
    (proc.strategy = "docker" /\ proc.outcome \in {"run_error", "connect_error"})
        => /\ raised = "none"
           /\ executed_result.some
           /\ StartsAt(executed_result.text, 1,
                       SubSeq(FailedPrefix, 1, Len(FailedPrefix) - 1))

\* C3: once execute_docker has been called with an existing temp file, the
\* file is gone when control has left execute_docker, whatever the outcome.
C3_DockerDeletesScript ==
    (calls.docker > 0 /\ AfterExecution) => temp_file_path \notin files

\* C4: when the child process exceeds the timeout, execute_local returns the
\* sentinel text instead of raising, and the temp file is removed.
C4_TimeoutIsSentinel ==
    (proc.strategy = "local" /\ proc.outcome = "timeout")
        => /\ raised = "none"
           /\ executed_result = Str(TimeoutMsg)
           /\ temp_file_path \notin files

\* C5: for every completed child process execute_local returns stdout exactly
\* when the exit code is zero and stderr exactly when it is not, and the temp
\* file is removed in both cases.
C5_StdoutOrStderr ==
    (proc.strategy = "local" /\ proc.outcome = "completed")
        => /\ raised = "none"
           /\ proc.returncode = 0 => executed_result = Str(proc.stdout)
           /\ proc.returncode # 0 => executed_result = Str(proc.stderr)
           /\ temp_file_path \notin files

\* C6: once the script is written in local or containerized mode, no outcome
\* of the execution step propagates an exception: the run never leaves the
\* path to Displayed.
C6_NoExceptionPropagates ==
    (execution_env \in {"local", "docker"} /\ AfterExecution)
        => raised = "none" /\ pc \in {"Executed", "Displayed"}

\* C7: for a reply with zero fenced code blocks get_code_group returns the
\* not-found signal, no script file is created, no strategy is invoked and
\* the run ends in NoCodeFound with nothing but the streamed text shown.
C7_NoBlockNoScript ==
    (pc # "Idle" /\ Blocks(output) = <<>>)
        => /\ Extracted => code = NoMatch
           /\ pc \in {"ResponseStreaming", "CodeExtracted", "NoCodeFound"}
           /\ files = {} /\ temp_file_path = NoPath
           /\ calls.local = 0 /\ calls.docker = 0
           /\ shown.kind = "none"

C7_Witness ==
    /\ pc = "NoCodeFound"
    /\ Blocks(output) = <<>>
    /\ Contains(output, Opener)

\* C8, as stated: for a reply with exactly one fenced code block
\* get_code_group returns that block's body without the fence markers and
\* the language tag, and with several language-tagged blocks the body of
\* the first one.
C8_AnyFencedBlock ==
    LET b == Blocks(output)
    IN  (/\ Extracted
         /\ Len(b) >= 1
         /\ \A k \in 1..Len(b) : BlockTag(b[k]) # <<>>)
            => code = Match(BlockBody(b[1]))

\* C8, amended: for a reply whose fenced code blocks are all opened by the
\* python tag followed by a newline, get_code_group returns the body of the
\* only block, and of the first block when there are several.
C8_PythonBlocks ==
    LET b == Blocks(output)
    IN  (/\ Extracted
         /\ Len(b) >= 1
         /\ \A k \in 1..Len(b) : PythonTagged(b[k]))
            => code = Match(BlockBody(b[1]))

C8_Witness ==
    LET b == Blocks(output)
    IN  /\ Extracted
        /\ Len(b) = 2
        /\ \A k \in 1..2 : PythonTagged(b[k])
        /\ BlockBody(b[1]) = <<"a">>
        /\ BlockBody(b[2]) = <<>>
        /\ code = Match(<<"a">>)

\* C9: a result that contains ".png" or ".jpg" is rendered as an image, from
\* the trimmed result itself under the local strategy and from the temp
\* directory joined with the trimmed result under the containerized one;
\* every other result is rendered as raw text.
C9_Classifier ==
    pc = "Displayed" =>
        IF /\ executed_result.some
           /\ \/ Contains(executed_result.text, <<".","p","n","g">>)
              \/ Contains(executed_result.text, <<".","j","p","g">>)
        THEN /\ shown.kind = "image"
             /\ execution_env = "local" => shown.path = strip(executed_result.text)
             /\ execution_env # "local" =>
                   /\ execution_env = "docker"
                   /\ \E d \in TempDirs :
                         /\ temp_file_path = d \o <<"/">> \o ScriptName
                         /\ shown.path = d \o <<"/">> \o strip(executed_result.text)
                   /\ (/\ executed_result.text = ChartPng \o <<"\n">>
                       /\ temp_file_path = <<"/","t","m","p","/","a","b","c","/">> \o ScriptName)
                         => shown.path = <<"/","t","m","p","/","a","b","c","/","c","h","a","r","t",".","p","n","g">>
        ELSE shown.kind = "text" /\ shown.value = executed_result

C9_Witness ==
    /\ pc = "Displayed"
    /\ execution_env = "docker"
    /\ executed_result = Str(ChartPng \o <<"\n">>)
    /\ shown.kind = "image"
    /\ shown.path = <<"/","t","m","p","/","a","b","c","/","c","h","a","r","t",".","p","n","g">>

Rank(p) ==
    CASE p = "Idle" -> 0
      [] p = "ResponseStreaming" -> 1
      [] p = "CodeExtracted" -> 2
      [] p = "ScriptWritten" -> 3
      [] p = "Executed" -> 4
      [] OTHER -> 5

OneStrategy ==
    /\ calls.local + calls.docker <= 1
    /\ calls.local > 0 => execution_env = "local"
    /\ calls.docker > 0 => execution_env = "docker"
    /\ execution_env = "None" => calls.local = 0 /\ calls.docker = 0
    /\ (~code.ok \/ code.group = <<>>) => calls.local = 0 /\ calls.docker = 0

\* C10: at most one strategy is invoked and at most once, the one of the
\* selected mode, none in mode None or without code; the mode never changes
\* and every step moves the run forward (nothing is retried).
C10_OneStrategyOnce ==
    /\ []OneStrategy
    /\ [][execution_env' = execution_env /\ Rank(pc') > Rank(pc)]_vars

C10_Witness ==
    /\ pc = "Displayed"
    /\ calls = [local |-> 1, docker |-> 0]

====
